---- MODULE Spec2Model ----
(***************************************************************************)
(* The agent orchestration loop of the PartSelect chat agent.              *)
(*                                                                         *)
(* Three orchestrator designs live in the repository:                      *)
(*   "rule"  BaseAgent.processQuery + the rule-based PartSelectAgent       *)
(*           (hasExecutedAction / actionResults, analyzeUserIntent)        *)
(*   "llm"   BaseAgent.processQuery + the LLM-driven PartSelectAgent       *)
(*           (generateToolAction / generateResponse of DeepSeekService)    *)
(*   "react" BaseAgent.process + the ReAct PartSelectAgent                 *)
(*           (generateThought / determineAction / executeAction)           *)
(* One agent instance serves every session (backend/src/server.ts), so the *)
(* instance fields are shared; a turn runs without interruption between    *)
(* two outbound LLM calls and other sessions' turns run only while it is   *)
(* suspended on such a call.                                               *)
(***************************************************************************)
EXTENDS Integers, Sequences, FiniteSets, TLC

\* ------------------------------------------------------------------ bounds
NumSessions == 2
MaxTurns == 3

\* ------------------------------------------------------- program constants
maxIterations == 10
reactMaxIterations == 6

Sessions == 1..NumSessions
Variants == {"rule", "llm", "react"}

VARIABLES
  variant,            \* which orchestrator design is deployed
  reasoning,          \* BaseAgent.reasoning (instance field)
  currentIteration,   \* BaseAgent.currentIteration (instance field)
  hasExecutedAction,  \* PartSelectAgent.hasExecutedAction (rule agent)
  actionResults,      \* PartSelectAgent.actionResults (rule agent)
  pc,                 \* per session: position of its processQuery / process call
  msg,                \* per session: the user message of the current turn
  intent,             \* per session: local `intent` of the rule agent's generateAction
  action,             \* per session: local `action` of the loop
  observation,        \* per session: local `observation` of the loop
  err,                \* per session: exception in flight ("none" when none)
  result,             \* per session: what the call returned (or that it threw)
  trace,              \* per session: local `reasoning` of process (react)
  iteration,          \* per session: local `iteration` of process (react)
  turns,              \* turns started so far, over all sessions
  own,                \* history: the log entries this turn itself appended
  toolCalls,          \* history: tool.execute calls of this turn
  llm,                \* history: outcome of this turn's LLM calls
  prev,               \* history: how the previous processQuery call ended
  service,            \* which SearchService implementation answers
  call,               \* the SearchService call under way (operation and arguments)
  ret,                \* what that call returned
  parameters,         \* the tool call under way: the tool and the parameters handed to execute
  toolResult,         \* the ToolResult that execute returned
  engineCalls,        \* history: calls of SearchService methods made by that execute
  products,           \* the products field of the value the turn returned
  now,                \* Date.now(), in minutes
  client,             \* DeepSeekService.client is set (an API key was configured)
  isApiAvailable,     \* DeepSeekService.isApiAvailable
  lastHealthCheck,    \* DeepSeekService.lastHealthCheck
  lastCall,           \* history: the last gateway call and whether it attempted the API
  failures,           \* history: failed API calls (counted up to two) and when the last one was
  rateLimitStore,     \* server.ts rateLimitStore: per client id the entry, if any
  window,             \* history: per client the start of its current window and the requests passed in it
  status              \* history: per client how its last request was answered

agentVars == << variant, reasoning, currentIteration, hasExecutedAction, actionResults,
                pc, msg, intent, action, observation, err, result, trace, iteration, turns,
                own, toolCalls, llm, prev >>
searchVars == << service, call, ret >>
toolVars == << parameters, toolResult, engineCalls, products >>
gatewayVars == << client, isApiAvailable, lastHealthCheck, lastCall, failures >>
rateVars == << rateLimitStore, window, status >>
vars == << agentVars, searchVars, toolVars, gatewayVars, rateVars, now >>

instanceVars == << reasoning, currentIteration, hasExecutedAction, actionResults >>
reactVars == << trace, iteration >>

\* ------------------------------------------------------------ registry
ToolNames == {"ProductSearch", "CompatibilityCheck", "InstallationGuide", "TroubleshootingGuide"}
UnknownTool == "NoSuchTool"
NoAction == [tool |-> "null", valid |-> TRUE]
NoObservation == [success |-> FALSE, result |-> "none", error |-> "none"]
NoResult == [kind |-> "none"]

\* tools.get(name): the registered tool or undefined
toolsGet(name) == IF name \in ToolNames THEN name ELSE "undefined"

\* ------------------------------------------------------------ messages
\* A user message is described by the keyword rules of analyzeUserIntent it
\* matches and by whether the part-number / model-number patterns match.
Rules == {"install", "compat", "trouble", "search", "greet"}
Message(kw, p, m) == [kw |-> kw, part |-> p, model |-> m]
Messages == { Message(kw, p, m) : kw \in SUBSET Rules, p \in BOOLEAN, m \in BOOLEAN }
AnyMessage == Message({}, FALSE, FALSE)
\* The llm and react designs hand the text to the gateway and never inspect it.
MessagesFor(v) == IF v = "rule" THEN Messages ELSE {AnyMessage}

NoIntent == [type |-> "none", part |-> FALSE, model |-> FALSE]

\* analyzeUserIntent with the troubleshooting test moved to the front
analyzeUserIntentTroubleFirst(m) ==
  LET searchRule == "search" \in m.kw \/ m.part IN
  IF "trouble" \in m.kw THEN [type |-> "troubleshooting", part |-> FALSE, model |-> FALSE]
  ELSE IF "install" \in m.kw THEN [type |-> "installation", part |-> m.part, model |-> FALSE]
  ELSE IF "compat" \in m.kw THEN [type |-> "compatibility", part |-> m.part, model |-> m.model]
  ELSE IF searchRule THEN [type |-> "product_search", part |-> m.part, model |-> FALSE]
  ELSE IF "greet" \in m.kw THEN [type |-> "general_help", part |-> FALSE, model |-> FALSE]
  ELSE [type |-> "general", part |-> m.part, model |-> m.model]

\* analyzeUserIntent: first matching rule wins
analyzeUserIntent(m) ==
  LET searchRule == "search" \in m.kw \/ m.part IN
  IF "install" \in m.kw THEN [type |-> "installation", part |-> m.part, model |-> FALSE]
  ELSE IF "compat" \in m.kw THEN [type |-> "compatibility", part |-> m.part, model |-> m.model]
  ELSE IF "trouble" \in m.kw THEN [type |-> "troubleshooting", part |-> FALSE, model |-> FALSE]
  ELSE IF searchRule THEN [type |-> "product_search", part |-> m.part, model |-> FALSE]
  ELSE IF "greet" \in m.kw THEN [type |-> "general_help", part |-> FALSE, model |-> FALSE]
  ELSE [type |-> "general", part |-> m.part, model |-> m.model]

\* the switch of the rule agent's generateAction: the tool chosen for an intent
ruleTool(i) ==
  CASE i.type = "installation" -> IF i.part THEN "InstallationGuide" ELSE "ProductSearch"
    [] i.type = "compatibility" ->
         IF i.part /\ i.model THEN "CompatibilityCheck" ELSE "ProductSearch"
    [] i.type = "troubleshooting" -> "TroubleshootingGuide"
    [] i.type = "product_search" -> "ProductSearch"
    [] i.type = "general_help" -> "null"
    [] OTHER -> "ProductSearch"

\* ------------------------------------------------------------ reasoning log
Entry(log, type, tool) == [step |-> Len(log) + 1, type |-> type, tool |-> tool]
think(log) == Append(log, Entry(log, "thought", "-"))
\* an act that logs nothing
actUnlogged(log, a) == log
act(log, a) == Append(log, Entry(log, "action", a.tool))
observe(log, toolName) == Append(log, Entry(log, "observation", toolName))

\* ------------------------------------------------------------ scheduling
Suspended == {"idle", "awaitToolAction", "awaitFinal", "awaitThought", "awaitDetermine"}
\* A turn runs only while no other turn is between two suspension points.
CanRun(s) == \A u \in Sessions \ {s} : pc[u] \in Suspended

TypeOK ==
  /\ variant \in Variants
  /\ currentIteration \in 0..maxIterations
  /\ hasExecutedAction \in BOOLEAN
  /\ turns \in 0..MaxTurns
  /\ \A s \in Sessions : toolCalls[s] \in Nat

AgentInit ==
  /\ variant \in Variants
  /\ reasoning = << >>
  /\ currentIteration = 0
  /\ hasExecutedAction = FALSE
  /\ actionResults = << >>
  /\ pc = [s \in Sessions |-> "idle"]
  /\ msg = [s \in Sessions |-> AnyMessage]
  /\ intent = [s \in Sessions |-> NoIntent]
  /\ action = [s \in Sessions |-> NoAction]
  /\ observation = [s \in Sessions |-> NoObservation]
  /\ err = [s \in Sessions |-> "none"]
  /\ result = [s \in Sessions |-> NoResult]
  /\ trace = [s \in Sessions |-> << >>]
  /\ iteration = [s \in Sessions |-> 0]
  /\ turns = 0
  /\ own = [s \in Sessions |-> << >>]
  /\ toolCalls = [s \in Sessions |-> 0]
  /\ llm = [s \in Sessions |-> [tool |-> "none", final |-> "none"]]
  /\ prev = "none"

\* ------------------------------------------------------------ tools
\* tool.execute(parameters): every tool catches its own exceptions and returns a
\* ToolResult, success ("ok") or failure ("fail"). Invalid parameters fail
\* validation; InstallationGuide fails for a part that is not in the catalog and
\* TroubleshootingGuide when no symptom matches; the other two succeed on valid
\* parameters (an incompatible part is a successful check).
toolExecute(tool, valid) ==
  IF ~valid THEN {"fail"}
  ELSE IF tool \in {"InstallationGuide", "TroubleshootingGuide"} THEN {"ok", "fail"}
  ELSE {"ok"}

\* ------------------------------------------------------------ LLM gateway
\* What a call of the gateway can come to: for the tool-selection request a
\* decision naming a tool (registered or not, with valid or invalid parameters),
\* the decision {"tool": null}, or a failure (network, timeout, quota, reply that
\* is not the JSON asked for); for a completion, text or a failure.
ToolDecisions == { [tool |-> n, valid |-> v] : n \in ToolNames \cup {UnknownTool}, v \in BOOLEAN }
GatewayFailure == [tool |-> "failure", valid |-> TRUE]
GatewayToolReplies == ToolDecisions \cup {NoAction, GatewayFailure}
GatewayTextReplies == {"text", "failure"}

\* DeepSeekService.generateToolAction: the decision, null, or an exception
generateToolAction(reply) ==
  IF reply = GatewayFailure THEN [threw |-> TRUE, value |-> NoAction]
  ELSE [threw |-> FALSE, value |-> reply]

\* PartSelectAgent.generateAction (llm): an exception of the gateway becomes null
llmGenerateAction(reply) ==
  LET r == generateToolAction(reply) IN IF r.threw THEN NoAction ELSE r.value

\* ------------------------------------------------------------ processQuery
Frame(s) == << msg[s], intent[s], action[s], observation[s], err[s], result[s] >>

\* lines 23-25: a new call resets the instance fields
ProcessQueryStart(s) ==
  /\ variant \in {"rule", "llm"}
  /\ pc[s] = "idle"
  /\ turns < MaxTurns
  /\ CanRun(s)
  /\ \E m \in MessagesFor(variant) : msg' = [msg EXCEPT ![s] = m]
  /\ intent' = [intent EXCEPT ![s] = NoIntent]
  /\ reasoning' = << >>
  /\ currentIteration' = 0
  /\ pc' = [pc EXCEPT ![s] = "started"]
  /\ action' = [action EXCEPT ![s] = NoAction]
  /\ observation' = [observation EXCEPT ![s] = NoObservation]
  /\ err' = [err EXCEPT ![s] = "none"]
  /\ result' = [result EXCEPT ![s] = NoResult]
  /\ turns' = turns + 1
  /\ own' = [own EXCEPT ![s] = << >>]
  /\ toolCalls' = [toolCalls EXCEPT ![s] = 0]
  /\ llm' = [llm EXCEPT ![s] = [tool |-> "none", final |-> "none"]]
  /\ UNCHANGED << variant, hasExecutedAction, actionResults, reactVars, prev >>

\* line 30: the initial thought
InitialThink(s) ==
  /\ pc[s] = "started"
  /\ CanRun(s)
  /\ reasoning' = think(reasoning)
  /\ own' = [own EXCEPT ![s] = Append(@, Entry(reasoning, "thought", "-"))]
  /\ pc' = [pc EXCEPT ![s] = "loop"]
  /\ UNCHANGED << variant, currentIteration, hasExecutedAction, actionResults, msg, intent, action,
                  observation, err, result, reactVars, turns, toolCalls, llm, prev >>

\* lines 33-34: the loop condition and the increment
LoopHead(s) ==
  /\ pc[s] = "loop"
  /\ CanRun(s)
  /\ IF currentIteration < maxIterations
       THEN /\ currentIteration' = currentIteration + 1
            /\ pc' = [pc EXCEPT ![s] = "generateAction"]
       ELSE /\ UNCHANGED currentIteration
            /\ pc' = [pc EXCEPT ![s] = "final"]
  /\ UNCHANGED << variant, reasoning, hasExecutedAction, actionResults, msg, intent, action,
                  observation, err, result, reactVars, turns, own, toolCalls, llm, prev >>

\* the rule agent's generateAction, and lines 39-42 of the loop
RuleGenerateAction(s) ==
  /\ variant = "rule"
  /\ pc[s] = "generateAction"
  /\ CanRun(s)
  /\ LET i == analyzeUserIntent(msg[s])
         t == ruleTool(i)
         log1 == think(reasoning)
     IN IF hasExecutedAction
          THEN /\ action' = [action EXCEPT ![s] = NoAction]
               /\ pc' = [pc EXCEPT ![s] = "final"]
               /\ UNCHANGED << reasoning, hasExecutedAction, own, intent >>
          ELSE /\ intent' = [intent EXCEPT ![s] = i]
               /\ IF t = "null"
                    THEN /\ reasoning' = think(log1)
                         /\ own' = [own EXCEPT ![s] =
                               @ \o << Entry(reasoning, "thought", "-"),
                                       Entry(log1, "thought", "-") >>]
                         /\ action' = [action EXCEPT ![s] = NoAction]
                         /\ pc' = [pc EXCEPT ![s] = "final"]
                         /\ UNCHANGED hasExecutedAction
                    ELSE /\ reasoning' = log1
                         /\ own' = [own EXCEPT ![s] = Append(@, Entry(reasoning, "thought", "-"))]
                         /\ action' = [action EXCEPT ![s] = [tool |-> t, valid |-> TRUE]]
                         /\ hasExecutedAction' = TRUE
                         /\ pc' = [pc EXCEPT ![s] = "executeAction"]
  /\ UNCHANGED << variant, currentIteration, actionResults, msg, observation, err, result,
                  reactVars, turns, toolCalls, llm, prev >>

\* the llm agent's generateAction: the tool-selection request goes out
LlmGenerateAction(s) ==
  /\ variant = "llm"
  /\ pc[s] = "generateAction"
  /\ CanRun(s)
  /\ pc' = [pc EXCEPT ![s] = "awaitToolAction"]
  /\ UNCHANGED << variant, instanceVars, msg, intent, action, observation, err, result, reactVars,
                  turns, own, toolCalls, llm, prev >>

\* the gateway answers the tool-selection request (or fails); lines 39-42
ToolActionReply(s) ==
  /\ pc[s] = "awaitToolAction"
  /\ CanRun(s)
  /\ \E reply \in GatewayToolReplies :
       LET a == llmGenerateAction(reply) IN
       /\ action' = [action EXCEPT ![s] = a]
       /\ llm' = [llm EXCEPT ![s].tool =
                    IF reply = GatewayFailure THEN "failed"
                    ELSE IF reply = NoAction THEN "notool" ELSE "action"]
       /\ pc' = [pc EXCEPT ![s] = IF a = NoAction THEN "final" ELSE "executeAction"]
  /\ UNCHANGED << variant, instanceVars, msg, intent, observation, err, result, reactVars,
                  turns, own, toolCalls, prev >>

\* BaseAgent.executeAction: act, look the tool up, run it
executeAction(a, outcome) ==
  IF toolsGet(a.tool) = "undefined"
    THEN [success |-> FALSE, result |-> "null", error |-> "tool not found"]
    ELSE [success |-> TRUE, result |-> outcome, error |-> "none"]

\* line 45
ExecuteAction(s) ==
  /\ pc[s] = "executeAction"
  /\ CanRun(s)
  /\ reasoning' = act(reasoning, action[s])
  /\ own' = [own EXCEPT ![s] = Append(@, Entry(reasoning, "action", action[s].tool))]
  /\ \E outcome \in toolExecute(action[s].tool, action[s].valid) :
       observation' = [observation EXCEPT ![s] = executeAction(action[s], outcome)]
  /\ toolCalls' = [toolCalls EXCEPT ![s] =
                     IF toolsGet(action[s].tool) = "undefined" THEN @ ELSE @ + 1]
  /\ pc' = [pc EXCEPT ![s] = "observe"]
  /\ UNCHANGED << variant, currentIteration, hasExecutedAction, actionResults, msg, intent, action,
                  err, result, reactVars, turns, llm, prev >>

\* line 48
Observe(s) ==
  /\ pc[s] = "observe"
  /\ CanRun(s)
  /\ reasoning' = observe(reasoning, action[s].tool)
  /\ own' = [own EXCEPT ![s] = Append(@, Entry(reasoning, "observation", action[s].tool))]
  /\ pc' = [pc EXCEPT ![s] = "shouldFinalize"]
  /\ UNCHANGED << variant, currentIteration, hasExecutedAction, actionResults, msg, intent, action,
                  observation, err, result, reactVars, turns, toolCalls, llm, prev >>

\* a shouldFinalize that asks for another iteration
shouldFinalizeKeepsGoing(v) == "false"

\* this.shouldFinalize(observation): the rule agent returns true; the llm agent
\* does not define the method, so the call is a TypeError
shouldFinalize(v) == IF v = "rule" THEN "true" ELSE "TypeError"

\* lines 51-53
ShouldFinalize(s) ==
  /\ pc[s] = "shouldFinalize"
  /\ CanRun(s)
  /\ LET r == shouldFinalize(variant) IN
     /\ actionResults' = IF variant = "rule" THEN Append(actionResults, observation[s])
                         ELSE actionResults
     /\ pc' = [pc EXCEPT ![s] = CASE r = "true" -> "final"
                                  [] r = "false" -> "loop"
                                  [] OTHER -> "catch"]
     /\ err' = [err EXCEPT ![s] = IF r \in {"true", "false"} THEN @ ELSE r]
  /\ UNCHANGED << variant, reasoning, currentIteration, hasExecutedAction, msg, intent, action,
                  observation, result, reactVars, turns, own, toolCalls, llm, prev >>

\* toolUsed of generateFinalResponse: the tool of the first action entry of the log
toolUsed(log) ==
  IF \E i \in 1..Len(log) : log[i].type = "action"
    THEN log[CHOOSE i \in 1..Len(log) :
               log[i].type = "action" /\ \A j \in 1..(i - 1) : log[j].type # "action"].tool
    ELSE "undefined"

\* generateFinalResponse with the reset placed on the templated-answer path only
ruleFinalResponseResetOnSuccess(results, log) ==
  LET latest == IF Len(results) = 0 THEN NoObservation ELSE results[Len(results)]
      ok == Len(results) > 0 /\ latest.success /\ latest.result = "ok"
  IN [response |-> IF ok THEN toolUsed(log) ELSE "formatIssue", reset |-> ok, threw |-> "none"]

\* the rule agent's generateFinalResponse after its thought: the response, or the
\* exception, and whether the "Reset for next query" assignments were reached
ruleFinalResponse(results, log) ==
  LET latest == IF Len(results) = 0 THEN NoObservation ELSE results[Len(results)]
      tool == toolUsed(log)
  IN IF Len(results) = 0 \/ ~latest.success
       THEN [response |-> "apology", reset |-> FALSE, threw |-> "none"]
     ELSE IF tool = "ProductSearch" /\ latest.result # "ok"
       THEN [response |-> "none", reset |-> FALSE, threw |-> "TypeError"]
     ELSE IF tool \in ToolNames
       THEN [response |-> IF latest.result = "ok" THEN tool ELSE "formatIssue",
             reset |-> TRUE, threw |-> "none"]
     ELSE [response |-> "overview", reset |-> TRUE, threw |-> "none"]

\* line 57 for the rule agent
RuleFinalResponse(s) ==
  /\ variant = "rule"
  /\ pc[s] = "final"
  /\ CanRun(s)
  /\ reasoning' = think(reasoning)
  /\ own' = [own EXCEPT ![s] = Append(@, Entry(reasoning, "thought", "-"))]
  /\ LET f == ruleFinalResponse(actionResults, reasoning) IN
     /\ hasExecutedAction' = IF f.reset THEN FALSE ELSE hasExecutedAction
     /\ actionResults' = IF f.reset THEN << >> ELSE actionResults
     /\ IF f.threw = "none"
          THEN /\ result' = [result EXCEPT ![s] = [kind |-> "final", response |-> f.response]]
               /\ pc' = [pc EXCEPT ![s] = "return"]
               /\ UNCHANGED err
          ELSE /\ err' = [err EXCEPT ![s] = f.threw]
               /\ pc' = [pc EXCEPT ![s] = "catch"]
               /\ UNCHANGED result
  /\ UNCHANGED << variant, currentIteration, msg, intent, action, observation, reactVars, turns,
                  toolCalls, llm, prev >>

\* line 57 for the llm agent: the synthesis request goes out
LlmFinalResponse(s) ==
  /\ variant = "llm"
  /\ pc[s] = "final"
  /\ CanRun(s)
  /\ pc' = [pc EXCEPT ![s] = "awaitFinal"]
  /\ UNCHANGED << variant, instanceVars, msg, intent, action, observation, err, result, reactVars,
                  turns, own, toolCalls, llm, prev >>

\* DeepSeekService.generateResponse: the text, or an exception
generateResponse(reply) ==
  IF reply = "failure" THEN [threw |-> "AI service is temporarily unavailable", value |-> "none"]
  ELSE [threw |-> "none", value |-> "llmText"]

\* the gateway answers the synthesis request (or fails)
FinalReply(s) ==
  /\ pc[s] = "awaitFinal"
  /\ CanRun(s)
  /\ \E reply \in GatewayTextReplies :
       LET r == generateResponse(reply) IN
       /\ llm' = [llm EXCEPT ![s].final = IF reply = "failure" THEN "failed" ELSE "ok"]
       /\ IF r.threw = "none"
            THEN /\ result' = [result EXCEPT ![s] = [kind |-> "final", response |-> r.value]]
                 /\ pc' = [pc EXCEPT ![s] = "return"]
                 /\ UNCHANGED err
            ELSE /\ err' = [err EXCEPT ![s] = r.threw]
                 /\ pc' = [pc EXCEPT ![s] = "catch"]
                 /\ UNCHANGED result
  /\ UNCHANGED << variant, instanceVars, msg, intent, action, observation, reactVars, turns, own,
                  toolCalls, prev >>

\* lines 61-66: the value returned on the normal path
returnValue(final, log) ==
  [kind |-> "returned", response |-> final.response, reasoning |-> log, error |-> "undefined"]

\* a catch block that logs and rethrows
topLevelCatchRethrows(e, log) == [kind |-> "threw", error |-> e]

\* lines 68-76: the top-level catch
topLevelCatch(e, log) ==
  [kind |-> "returned", response |-> "apology", reasoning |-> log, error |-> e]

Return(s) ==
  /\ pc[s] = "return"
  /\ CanRun(s)
  /\ result' = [result EXCEPT ![s] = returnValue(result[s], reasoning)]
  /\ prev' = result[s].response
  /\ pc' = [pc EXCEPT ![s] = "done"]
  /\ UNCHANGED << variant, instanceVars, msg, intent, action, observation, err, reactVars, turns,
                  own, toolCalls, llm >>

Catch(s) ==
  /\ pc[s] = "catch"
  /\ variant \in {"rule", "llm"}
  /\ CanRun(s)
  /\ result' = [result EXCEPT ![s] = topLevelCatch(err[s], reasoning)]
  /\ prev' = "exception"
  /\ pc' = [pc EXCEPT ![s] = "done"]
  /\ UNCHANGED << variant, instanceVars, msg, intent, action, observation, err, reactVars, turns,
                  own, toolCalls, llm >>

\* ------------------------------------------------------------ process (react)
\* What the gateway's reply to determineAction comes to after parseActionResponse:
\* final_answer, a registered tool, a name that is not registered, or a failure
\* (an exception or the placeholder text).
ReactTool == "ProductSearch"
ReactActionReplies == {"final_answer", ReactTool, UnknownTool, "failure"}

\* generateThought: the thought, or an exception when the gateway is unavailable
generateThought(reply) ==
  IF reply = "failure" THEN [threw |-> "AI reasoning service is unavailable", value |-> "none"]
  ELSE [threw |-> "none", value |-> "thought"]

\* determineAction with parseActionResponse: anything but a registered tool
\* becomes final_answer
determineAction(reply) == IF reply \in ToolNames THEN reply ELSE "final_answer"

\* lines 38-40 of process: the log is a local of the call
ProcessStart(s) ==
  /\ variant = "react"
  /\ pc[s] = "idle"
  /\ turns < MaxTurns
  /\ CanRun(s)
  /\ \E m \in MessagesFor(variant) : msg' = [msg EXCEPT ![s] = m]
  /\ intent' = [intent EXCEPT ![s] = NoIntent]
  /\ trace' = [trace EXCEPT ![s] = << >>]
  /\ iteration' = [iteration EXCEPT ![s] = 0]
  /\ pc' = [pc EXCEPT ![s] = "reactLoop"]
  /\ action' = [action EXCEPT ![s] = NoAction]
  /\ observation' = [observation EXCEPT ![s] = NoObservation]
  /\ err' = [err EXCEPT ![s] = "none"]
  /\ result' = [result EXCEPT ![s] = NoResult]
  /\ turns' = turns + 1
  /\ own' = [own EXCEPT ![s] = << >>]
  /\ toolCalls' = [toolCalls EXCEPT ![s] = 0]
  /\ llm' = [llm EXCEPT ![s] = [tool |-> "none", final |-> "none"]]
  /\ UNCHANGED << variant, instanceVars, prev >>

\* a loop head without the test of the iteration count
ReactLoopHeadUnbounded(s) ==
  /\ pc[s] = "reactLoop"
  /\ CanRun(s)
  /\ pc' = [pc EXCEPT ![s] = "awaitThought"]
  /\ UNCHANGED << variant, instanceVars, msg, intent, action, observation, err, result, reactVars,
                  turns, own, toolCalls, llm, prev >>

\* line 43, and lines 79-85 when the iterations are used up
ReactLoopHead(s) ==
  /\ pc[s] = "reactLoop"
  /\ CanRun(s)
  /\ IF iteration[s] < reactMaxIterations
       THEN /\ pc' = [pc EXCEPT ![s] = "awaitThought"]
            /\ UNCHANGED result
       ELSE /\ result' = [result EXCEPT ![s] =
                 [kind |-> "returned", response |-> "synthesized",
                  reasoning |-> trace[s], error |-> "undefined"]]
            /\ pc' = [pc EXCEPT ![s] = "done"]
  /\ UNCHANGED << variant, instanceVars, msg, intent, action, observation, err, reactVars, turns,
                  own, toolCalls, llm, prev >>

\* line 45: the gateway answers generateThought
ThoughtReply(s) ==
  /\ pc[s] = "awaitThought"
  /\ CanRun(s)
  /\ \E reply \in GatewayTextReplies :
       LET r == generateThought(reply) IN
       IF r.threw = "none"
         THEN /\ pc' = [pc EXCEPT ![s] = "awaitDetermine"]
              /\ UNCHANGED err
         ELSE /\ err' = [err EXCEPT ![s] = r.threw]
              /\ pc' = [pc EXCEPT ![s] = "catch"]
  /\ UNCHANGED << variant, instanceVars, msg, intent, action, observation, result, reactVars, turns,
                  own, toolCalls, llm, prev >>

\* lines 48-76: the gateway answers determineAction; final_answer returns at once,
\* a tool is executed and the trace is pushed
DetermineReply(s) ==
  /\ pc[s] = "awaitDetermine"
  /\ CanRun(s)
  /\ \E reply \in ReactActionReplies :
       LET name == determineAction(reply)
           entry == [step |-> Len(trace[s]) + 1, type |-> "thought", tool |-> name]
       IN IF name = "final_answer"
            THEN /\ result' = [result EXCEPT ![s] =
                      [kind |-> "returned", response |-> "answer",
                       reasoning |-> trace[s], error |-> "undefined"]]
                 /\ pc' = [pc EXCEPT ![s] = "done"]
                 /\ UNCHANGED << trace, iteration, own, toolCalls >>
            ELSE /\ trace' = [trace EXCEPT ![s] = Append(@, entry)]
                 /\ own' = [own EXCEPT ![s] = Append(@, entry)]
                 /\ toolCalls' = [toolCalls EXCEPT ![s] = @ + 1]
                 /\ iteration' = [iteration EXCEPT ![s] = @ + 1]
                 /\ pc' = [pc EXCEPT ![s] = "reactLoop"]
                 /\ UNCHANGED result
  /\ UNCHANGED << variant, instanceVars, msg, intent, action, observation, err, turns, llm, prev >>

\* lines 86-100: the catch of process
processCatch(e, log) ==
  [kind |-> "returned", response |-> "apology", reasoning |-> log, error |-> e]

ProcessCatch(s) ==
  /\ pc[s] = "catch"
  /\ variant = "react"
  /\ CanRun(s)
  /\ result' = [result EXCEPT ![s] = processCatch(err[s], trace[s])]
  /\ pc' = [pc EXCEPT ![s] = "done"]
  /\ UNCHANGED << variant, instanceVars, msg, intent, action, observation, err, reactVars, turns,
                  own, toolCalls, llm, prev >>

ProcessNext(s) ==
  \/ ProcessStart(s)
  \/ ReactLoopHead(s)
  \/ ThoughtReply(s)
  \/ DetermineReply(s)
  \/ ProcessCatch(s)

\* backend/src/server.ts: the handler builds the HTTP response from the returned
\* value in the same task and the call's frame is gone
Respond(s) ==
  /\ pc[s] = "done"
  /\ CanRun(s)
  /\ pc' = [pc EXCEPT ![s] = "idle"]
  /\ msg' = [msg EXCEPT ![s] = AnyMessage]
  /\ intent' = [intent EXCEPT ![s] = NoIntent]
  /\ action' = [action EXCEPT ![s] = NoAction]
  /\ observation' = [observation EXCEPT ![s] = NoObservation]
  /\ err' = [err EXCEPT ![s] = "none"]
  /\ result' = [result EXCEPT ![s] = NoResult]
  /\ trace' = [trace EXCEPT ![s] = << >>]
  /\ iteration' = [iteration EXCEPT ![s] = 0]
  /\ own' = [own EXCEPT ![s] = << >>]
  /\ toolCalls' = [toolCalls EXCEPT ![s] = 0]
  /\ llm' = [llm EXCEPT ![s] = [tool |-> "none", final |-> "none"]]
  /\ UNCHANGED << variant, instanceVars, turns, prev >>

ProcessQueryNext(s) ==
  \/ ProcessQueryStart(s)
  \/ InitialThink(s)
  \/ LoopHead(s)
  \/ RuleGenerateAction(s)
  \/ LlmGenerateAction(s)
  \/ ToolActionReply(s)
  \/ ExecuteAction(s)
  \/ Observe(s)
  \/ ShouldFinalize(s)
  \/ RuleFinalResponse(s)
  \/ LlmFinalResponse(s)
  \/ FinalReply(s)
  \/ Return(s)
  \/ Catch(s)

\* ------------------------------------------------------------ strings
\* Identifiers are strings over a small alphabet: a letter in both cases, a
\* digit and a character that is neither.
MaxPartLen == 2
MaxModelLen == 3
Chars == {"a", "A", "1", "-"}
StringsUpTo(n) == UNION { [1..k -> Chars] : k \in 0..n }
lower(c) == IF c = "A" THEN "a" ELSE c
isDigit(c) == c = "1"
toLowerCase(str) == [k \in 1..Len(str) |-> lower(str[k])]
\* String.prototype.includes
includes(str, sub) ==
  \E k \in 0..(Len(str) - Len(sub)) : SubSeq(str, k + 1, k + Len(sub)) = sub
\* str.replace(/[0-9]$/, '')
stripTrailingDigit(str) ==
  IF Len(str) > 0 /\ isDigit(str[Len(str)]) THEN SubSeq(str, 1, Len(str) - 1) ELSE str
\* str.replace(/-\d+$/, '')
stripDashDigits(str) ==
  LET digits == { k \in 1..Len(str) : \A j \in (Len(str) - k + 1)..Len(str) : isDigit(str[j]) }
      run == IF digits = {} THEN 0 ELSE CHOOSE k \in digits : \A j \in digits : j <= k
  IN IF run > 0 /\ Len(str) > run /\ str[Len(str) - run] = "-"
       THEN SubSeq(str, 1, Len(str) - run - 1)
       ELSE str
\* normalizeString: lower case, then drop what is not a letter or a digit
normalizeString(str) == SelectSeq(toLowerCase(str), LAMBDA c : c \in {"a", "1"})
normalizeModel(model) == normalizeString(stripDashDigits(model))
\* Array.prototype.slice(start, end) for start >= 0
slice(arr, start, end) ==
  LET e == IF end < 0 THEN (IF Len(arr) + end < 0 THEN 0 ELSE Len(arr) + end)
           ELSE IF end > Len(arr) THEN Len(arr) ELSE end
  IN IF start >= e THEN << >> ELSE SubSeq(arr, start + 1, e)

\* ------------------------------------------------------------ catalog
\* sampleProducts, in the shape of the real data: part numbers are distinct
\* upper-case alphanumeric strings, model numbers upper-case alphanumeric, some
\* ending in a digit; products are named by their index.
sampleProducts ==
  << [partNumber |-> <<"A", "1">>, category |-> "refrigerator", brand |-> <<"A">>,
      price |-> 45, availability |-> "in-stock", installationDifficulty |-> "easy",
      name |-> <<"A", "1">>, description |-> <<"a">>,
      compatibleModels |-> << <<"A", "A", "1">>, <<"A", "1", "A">> >>],
     [partNumber |-> <<"1", "A">>, category |-> "dishwasher", brand |-> <<"A">>,
      price |-> 189, availability |-> "in-stock", installationDifficulty |-> "hard",
      name |-> <<"1">>, description |-> <<"1", "a">>,
      compatibleModels |-> << <<"A", "A", "1">>, <<"1", "1">> >>],
     [partNumber |-> <<"A", "A">>, category |-> "refrigerator", brand |-> <<"A", "A">>,
      price |-> 52, availability |-> "in-stock", installationDifficulty |-> "medium",
      name |-> <<"a", "a">>, description |-> <<"a", "1">>,
      compatibleModels |-> << <<"A", "1", "A">>, <<"1", "1">> >>],
     [partNumber |-> <<"1", "1">>, category |-> "refrigerator", brand |-> <<"1">>,
      price |-> 67, availability |-> "backordered", installationDifficulty |-> "medium",
      name |-> <<"1", "1">>, description |-> <<"1">>,
      compatibleModels |-> << <<"1", "1">>, <<"A", "A">> >>] >>
Products == 1..Len(sampleProducts)

\* an optional field of ProductSearchParams
None == [has |-> FALSE]
Some(v) == [has |-> TRUE, v |-> v]
Opt(S) == {None} \cup { Some(v) : v \in S }
\* truthiness of an optional string / of an optional number
Truthy(o) == o.has /\ o.v # << >>
TruthyNumber(o) == o.has /\ o.v # 0

defaultLimit == 10
MaxLimit == 2
ProductSearchParams ==
  [partNumber : Opt(StringsUpTo(MaxPartLen)),
   category : Opt({"refrigerator"}),
   brand : Opt({<<"a">>}),
   priceRange : Opt({[min |-> 60, max |-> 100]}),
   availability : Opt({"in-stock"}),
   query : Opt({<<"a">>}),
   limit : Opt(-1..MaxLimit),
   offset : Opt({1})]

NoCall == [op |-> "none"]
NoRet == [kind |-> "none"]

\* Array.prototype.filter: the elements of arr that satisfy keep, in order
Filter(arr, keep(_)) == SelectSeq(arr, keep)

\* query.toLowerCase().split(' '): the strings here hold no blank, so one term
queryTerms(q) == << toLowerCase(q) >>
Count(terms, hit(_)) == Len(SelectSeq(terms, hit))

\* calculateRelevanceScore of part_001
calculateRelevanceScoreV1(i, params) ==
  LET p == sampleProducts[i]
      pn == toLowerCase(p.partNumber)
  IN (IF Truthy(params.partNumber) /\ pn = toLowerCase(params.partNumber.v) THEN 1000 ELSE 0)
   + (IF Truthy(params.partNumber) /\ includes(pn, toLowerCase(params.partNumber.v)) THEN 500 ELSE 0)
   + (IF Truthy(params.query)
        THEN Count(queryTerms(params.query.v), LAMBDA t : includes(toLowerCase(p.name), t)) * 100
           + Count(queryTerms(params.query.v), LAMBDA t : includes(toLowerCase(p.description), t)) * 50
        ELSE 0)
   + (IF Truthy(params.brand) /\ includes(toLowerCase(p.brand), toLowerCase(params.brand.v))
        THEN 200 ELSE 0)
   + (IF p.availability = "in-stock" THEN 100
      ELSE IF p.availability = "backordered" THEN 25 ELSE 0)
   + (IF p.installationDifficulty = "easy" THEN 10
      ELSE IF p.installationDifficulty = "medium" THEN 5 ELSE 0)

\* calculateRelevanceScore of sampleProducts.ts
calculateRelevanceScoreV2(i, params) ==
  LET p == sampleProducts[i]
      pn == normalizeString(p.partNumber)
  IN (IF Truthy(params.partNumber) /\ includes(pn, normalizeString(params.partNumber.v))
        THEN 500 + (IF pn = normalizeString(params.partNumber.v) THEN 500 ELSE 0) ELSE 0)
   + (IF Truthy(params.query)
        THEN (IF includes(normalizeString(p.name), normalizeString(params.query.v)) THEN 100 ELSE 0)
           + (IF includes(normalizeString(p.description), normalizeString(params.query.v))
                THEN 50 ELSE 0)
        ELSE 0)
   + (IF Truthy(params.brand) /\ includes(normalizeString(p.brand), normalizeString(params.brand.v))
        THEN 200 ELSE 0)
   + (IF p.availability = "in-stock" THEN 100 ELSE 0)

\* scoreAndSortResults: Array.prototype.sort is stable, higher score first
scoreAndSortResults(arr, score(_)) ==
  LET n == Len(arr)
      rank(k) == Cardinality({ j \in 1..n :
                    \/ score(arr[j]) > score(arr[k])
                    \/ score(arr[j]) = score(arr[k]) /\ j < k }) + 1
  IN [r \in 1..n |-> arr[CHOOSE k \in 1..n : rank(k) = r]]

\* generateSuggestions: how many suggestion strings it returns
generateSuggestionsV1(params) ==
  LET n == (IF Truthy(params.partNumber) THEN 3 ELSE 0)
         + (IF Truthy(params.query) THEN 3 ELSE 0)
         + (IF Truthy(params.brand) /\ params.category.has THEN 2 ELSE 0) + 2
  IN IF n > 3 THEN 3 ELSE n
generateSuggestionsV2(params) ==
  (IF Truthy(params.partNumber) THEN 2 ELSE 0) + (IF Truthy(params.query) THEN 2 ELSE 0) + 1

\* the filters of searchProducts both implementations share (part_001 lines 40-66):
\* category, brand, price range, availability
commonFilters(arr, params, norm(_)) ==
  LET byCategory == IF params.category.has
                      THEN Filter(arr, LAMBDA i : sampleProducts[i].category = params.category.v)
                      ELSE arr
      byBrand == IF Truthy(params.brand)
                   THEN Filter(byCategory,
                          LAMBDA i : includes(norm(sampleProducts[i].brand), norm(params.brand.v)))
                   ELSE byCategory
      byPrice == IF params.priceRange.has
                   THEN Filter(byBrand, LAMBDA i : /\ sampleProducts[i].price >= params.priceRange.v.min
                                                   /\ sampleProducts[i].price <= params.priceRange.v.max)
                   ELSE byBrand
  IN IF params.availability.has
       THEN Filter(byPrice, LAMBDA i : sampleProducts[i].availability = params.availability.v)
       ELSE byPrice

AllProducts == [i \in Products |-> i]
\* o || d for a number
orDefault(o, d) == IF TruthyNumber(o) THEN o.v ELSE d

\* SearchService.searchProducts of part_001
searchProductsV1(params) ==
  LET exactMatch == IF Truthy(params.partNumber)
                      THEN Filter(AllProducts, LAMBDA i :
                             toLowerCase(sampleProducts[i].partNumber) = toLowerCase(params.partNumber.v))
                      ELSE << >>
      byPart == IF Truthy(params.partNumber)
                  THEN Filter(AllProducts, LAMBDA i :
                         includes(toLowerCase(sampleProducts[i].partNumber),
                                  toLowerCase(params.partNumber.v)))
                  ELSE AllProducts
      filtered == commonFilters(byPart, params, toLowerCase)
      byQuery == IF Truthy(params.query)
                   THEN Filter(filtered, LAMBDA i :
                          \E k \in 1..Len(queryTerms(params.query.v)) :
                            includes(toLowerCase(sampleProducts[i].name \o <<" ">>
                                                 \o sampleProducts[i].description),
                                     queryTerms(params.query.v)[k]))
                   ELSE filtered
      sorted == scoreAndSortResults(byQuery, LAMBDA i : calculateRelevanceScoreV1(i, params))
      offset == orDefault(params.offset, 0)
      limit == orDefault(params.limit, defaultLimit)
  IN IF Len(exactMatch) > 0
       THEN [kind |-> "search", exact |-> TRUE,
             products |-> slice(exactMatch, 0, orDefault(params.limit, defaultLimit)),
             totalCount |-> Len(exactMatch), ranked |-> exactMatch, suggestions |-> 0]
       ELSE [kind |-> "search", exact |-> FALSE,
             products |-> slice(sorted, offset, offset + limit),
             totalCount |-> Len(sorted), ranked |-> sorted,
             suggestions |-> IF Len(sorted) = 0 THEN generateSuggestionsV1(params) ELSE 0]

\* SearchService.searchProducts of sampleProducts.ts
searchProductsV2(params) ==
  LET found == IF Truthy(params.partNumber)
                 THEN { i \in Products : normalizeString(sampleProducts[i].partNumber)
                                           = normalizeString(params.partNumber.v) }
                 ELSE {}
      exactMatch == CHOOSE i \in found : \A j \in found : i <= j
      filtered == commonFilters(AllProducts, params, normalizeString)
      sorted == scoreAndSortResults(filtered, LAMBDA i : calculateRelevanceScoreV2(i, params))
      offset == IF params.offset.has THEN params.offset.v ELSE 0
      limit == IF params.limit.has THEN params.limit.v ELSE defaultLimit
  IN IF found # {}
       THEN [kind |-> "search", exact |-> TRUE, products |-> << exactMatch >>,
             totalCount |-> 1, ranked |-> << exactMatch >>, suggestions |-> 0]
       ELSE [kind |-> "search", exact |-> FALSE,
             products |-> slice(sorted, offset, offset + limit),
             totalCount |-> Len(sorted), ranked |-> sorted,
             suggestions |-> IF Len(sorted) = 0 THEN generateSuggestionsV2(params) ELSE 0]

\* this.products.find(...): the first product that satisfies the test, 0 for
\* undefined; Array.prototype.some
find(test(_)) ==
  IF \E i \in Products : test(i)
    THEN CHOOSE i \in Products : test(i) /\ \A j \in 1..(i - 1) : ~test(j)
    ELSE 0
some(arr, test(_)) == \E k \in 1..Len(arr) : test(arr[k])

\* checkCompatibility that skips the test for a missing part and takes the first product
checkCompatibilityV1AnyPart(partNumber, modelNumber) ==
  [kind |-> "compat", part |-> 1,
   isCompatible |-> some(sampleProducts[1].compatibleModels,
                         LAMBDA m : toLowerCase(m) = toLowerCase(modelNumber)),
   confidence |-> 10, alternativeParts |-> << >>]

\* checkCompatibility that answers every match with the lower confidence
checkCompatibilityV1LowConfidence(partNumber, modelNumber) ==
  LET part == find(LAMBDA i : toLowerCase(sampleProducts[i].partNumber) = toLowerCase(partNumber))
      hit == part # 0 /\ some(sampleProducts[part].compatibleModels, LAMBDA m :
               includes(toLowerCase(stripTrailingDigit(m)),
                        toLowerCase(stripTrailingDigit(modelNumber))))
  IN [kind |-> "compat", part |-> part, isCompatible |-> hit,
      confidence |-> IF hit THEN 8 ELSE 0, alternativeParts |-> << >>]

\* SearchService.checkCompatibility of part_001; confidence in tenths
checkCompatibilityV1(partNumber, modelNumber) ==
  LET part == find(LAMBDA i : toLowerCase(sampleProducts[i].partNumber) = toLowerCase(partNumber))
      models == sampleProducts[part].compatibleModels
      isDirectMatch == some(models, LAMBDA m : toLowerCase(m) = toLowerCase(modelNumber))
      partialMatch ==
        some(models, LAMBDA m :
          LET modelBase == toLowerCase(stripTrailingDigit(m))
              inputBase == toLowerCase(stripTrailingDigit(modelNumber))
          IN includes(modelBase, inputBase) \/ includes(inputBase, modelBase))
      alternativeParts ==
        Filter(AllProducts, LAMBDA i :
          /\ some(sampleProducts[i].compatibleModels, LAMBDA m :
               \/ includes(toLowerCase(m), toLowerCase(modelNumber))
               \/ includes(toLowerCase(modelNumber), toLowerCase(m)))
          /\ sampleProducts[i].category = sampleProducts[part].category)
  IN IF part = 0
       THEN [kind |-> "compat", part |-> 0, isCompatible |-> FALSE, confidence |-> 0,
             alternativeParts |-> << >>]
     ELSE IF isDirectMatch
       THEN [kind |-> "compat", part |-> part, isCompatible |-> TRUE, confidence |-> 10,
             alternativeParts |-> << >>]
     ELSE IF partialMatch
       THEN [kind |-> "compat", part |-> part, isCompatible |-> TRUE, confidence |-> 8,
             alternativeParts |-> << >>]
     ELSE [kind |-> "compat", part |-> part, isCompatible |-> FALSE, confidence |-> 0,
           alternativeParts |-> slice(alternativeParts, 0, 3)]

\* SearchService.checkCompatibility of sampleProducts.ts; confidence in tenths
checkCompatibilityV2(partNumber, modelNumber) ==
  LET part == find(LAMBDA i :
                normalizeString(sampleProducts[i].partNumber) = normalizeString(partNumber))
      normalizedModelNumber == normalizeModel(modelNumber)
      isCompatible == some(sampleProducts[part].compatibleModels,
                           LAMBDA m : normalizeModel(m) = normalizedModelNumber)
      alternativeParts ==
        Filter(AllProducts, LAMBDA i :
          /\ sampleProducts[i].category = sampleProducts[part].category
          /\ some(sampleProducts[i].compatibleModels,
                  LAMBDA m : normalizeModel(m) = normalizedModelNumber))
  IN IF part = 0
       THEN [kind |-> "compat", part |-> 0, isCompatible |-> FALSE, confidence |-> 0,
             alternativeParts |-> << >>]
     ELSE IF isCompatible
       THEN [kind |-> "compat", part |-> part, isCompatible |-> TRUE, confidence |-> 10,
             alternativeParts |-> << >>]
     ELSE [kind |-> "compat", part |-> part, isCompatible |-> FALSE, confidence |-> 0,
           alternativeParts |-> slice(alternativeParts, 0, 3)]

searchProducts(svc, params) ==
  IF svc = "v1" THEN searchProductsV1(params) ELSE searchProductsV2(params)
checkCompatibility(svc, partNumber, modelNumber) ==
  IF svc = "v1" THEN checkCompatibilityV1(partNumber, modelNumber)
  ELSE checkCompatibilityV2(partNumber, modelNumber)

\* a call of searchService.searchProducts(params) returns
SearchProducts ==
  /\ call.op = "search"
  /\ ret = NoRet
  /\ ret' = searchProducts(service, call.params)
  /\ UNCHANGED << service, call >>

\* a call of searchService.checkCompatibility(partNumber, modelNumber) returns
CheckCompatibility ==
  /\ call.op = "compat"
  /\ ret = NoRet
  /\ ret' = checkCompatibility(service, call.partNumber, call.modelNumber)
  /\ UNCHANGED << service, call >>

\* ------------------------------------------------------------ tools
\* the catalog products that carry installationSteps
hasInstallationSteps(i) == i \in {1, 2}

\* SearchService.getProductByPartNumber (0 for null)
getProductByPartNumberV1(partNumber) ==
  find(LAMBDA i : toLowerCase(sampleProducts[i].partNumber) = toLowerCase(partNumber))
getProductByPartNumberV2(partNumber) ==
  find(LAMBDA i : normalizeString(sampleProducts[i].partNumber) = normalizeString(partNumber))

Null == [null |-> TRUE]
\* SearchService.getInstallationInstructions of part_001: steps defaults to []
getInstallationInstructionsV1(partNumber) ==
  LET product == getProductByPartNumberV1(partNumber) IN
  IF product = 0 THEN Null
  ELSE [null |-> FALSE, part |-> product,
        steps |-> IF hasInstallationSteps(product) THEN "installationSteps" ELSE "[]"]
\* SearchService.getInstallationInstructions of sampleProducts.ts
getInstallationInstructionsV2(partNumber) ==
  LET product == getProductByPartNumberV2(partNumber) IN
  IF product = 0 \/ ~hasInstallationSteps(product) THEN Null
  ELSE [null |-> FALSE, part |-> product, steps |-> "installationSteps"]
getInstallationInstructions(svc, partNumber) ==
  IF svc = "v1" THEN getInstallationInstructionsV1(partNumber)
  ELSE getInstallationInstructionsV2(partNumber)

\* The parameters an agent can hand to a tool: fields absent, empty or outside
\* the schema included. ProductSearchTool.ts holds two ProductSearchTool classes.
ToolParameters ==
  { [tool |-> "ProductSearch", class |-> c, partNumber |-> pn, category |-> cat, limit |-> l] :
      c \in {"first", "second"}, pn \in Opt(StringsUpTo(MaxPartLen)),
      cat \in Opt({"refrigerator", "oven"}), l \in Opt(-1..MaxLimit) }
  \cup { [tool |-> "CompatibilityCheck", partNumber |-> pn, modelNumber |-> mn] :
           pn \in Opt(StringsUpTo(MaxPartLen)), mn \in Opt(StringsUpTo(MaxModelLen)) }
  \cup { [tool |-> "InstallationGuide", partNumber |-> pn] : pn \in Opt(StringsUpTo(MaxPartLen)) }
NoParameters == [tool |-> "none"]
NoToolResult == [success |-> FALSE, error |-> "not run"]
NoProducts == [returned |-> FALSE]

\* ProductSearchToolSchema.safeParse(parameters).success
ProductSearchToolSchema(p) ==
  /\ p.category.has => p.category.v \in {"refrigerator", "dishwasher"}
  /\ p.limit.has => p.limit.v > 0 /\ p.limit.v <= 20
\* CompatibilityToolSchema / InstallationToolSchema: z.string().min(1)
CompatibilityToolSchema(p) == Truthy(p.partNumber) /\ Truthy(p.modelNumber)
InstallationToolSchema(p) == Truthy(p.partNumber)

\* the ProductSearchParams the tool hands to searchProducts
toSearchParams(p, limit) ==
  [partNumber |-> p.partNumber, category |-> p.category, brand |-> None, priceRange |-> None,
   availability |-> None, query |-> None, limit |-> limit, offset |-> None]

\* ProductSearchTool.execute, first class: the parameters go to the engine as they are
productSearchExecuteFirst(svc, p) ==
  LET searchResult == searchProducts(svc, toSearchParams(p, p.limit)) IN
  [result |-> [success |-> TRUE,
               data |-> [products |-> searchResult.products,
                         suggestions |-> searchResult.suggestions]],
   engineCalls |-> 1]

\* ProductSearchTool.execute, second class: safeParse, limit defaults to 5
productSearchExecuteSecond(svc, p) ==
  IF ~ProductSearchToolSchema(p)
    THEN [result |-> [success |-> FALSE, error |-> "Invalid parameters"], engineCalls |-> 0]
    ELSE LET searchResult ==
               searchProducts(svc, toSearchParams(p, IF p.limit.has THEN p.limit ELSE Some(5)))
         IN [result |-> [success |-> TRUE,
                         data |-> [products |-> searchResult.products,
                                   totalCount |-> searchResult.totalCount,
                                   suggestions |-> searchResult.suggestions]],
             engineCalls |-> 1]

\* CompatibilityTool.execute
compatibilityExecute(svc, p) ==
  IF ~Truthy(p.partNumber) \/ ~Truthy(p.modelNumber)
    THEN [result |-> [success |-> FALSE, error |-> "Missing required parameters"],
          engineCalls |-> 0]
    ELSE LET compatibilityResult == checkCompatibility(svc, p.partNumber.v, p.modelNumber.v)
         IN [result |-> [success |-> TRUE,
                         data |-> [summary |-> compatibilityResult.isCompatible,
                                   recommendation |-> compatibilityResult.alternativeParts]],
             engineCalls |-> 1]

\* InstallationTool.execute
installationExecute(svc, p) ==
  IF ~InstallationToolSchema(p)
    THEN [result |-> [success |-> FALSE, error |-> "Invalid parameters"], engineCalls |-> 0]
    ELSE LET installationData == getInstallationInstructions(svc, p.partNumber.v) IN
         IF installationData.null
           THEN [result |-> [success |-> FALSE, error |-> "not found"], engineCalls |-> 1]
           ELSE [result |-> [success |-> TRUE, data |-> [installation |-> installationData]],
                 engineCalls |-> 1]

ProductSearchExecute ==
  /\ parameters.tool = "ProductSearch"
  /\ toolResult = NoToolResult
  /\ LET r == IF parameters.class = "first"
                THEN productSearchExecuteFirst(service, parameters)
                ELSE productSearchExecuteSecond(service, parameters)
     IN toolResult' = r.result /\ engineCalls' = engineCalls + r.engineCalls
  /\ UNCHANGED << parameters, products >>

CompatibilityExecute ==
  /\ parameters.tool = "CompatibilityCheck"
  /\ toolResult = NoToolResult
  /\ LET r == compatibilityExecute(service, parameters)
     IN toolResult' = r.result /\ engineCalls' = engineCalls + r.engineCalls
  /\ UNCHANGED << parameters, products >>

InstallationExecute ==
  /\ parameters.tool = "InstallationGuide"
  /\ toolResult = NoToolResult
  /\ LET r == installationExecute(service, parameters)
     IN toolResult' = r.result /\ engineCalls' = engineCalls + r.engineCalls
  /\ UNCHANGED << parameters, products >>

\* the reduce of BaseAgent.extractProducts / the Set of part_002: the first
\* product of each part number, products without one dropped
RECURSIVE uniqueProducts(_, _)
uniqueProducts(found, acc) ==
  IF found = << >> THEN acc
  ELSE LET product == Head(found)
           seen == \E k \in 1..Len(acc) :
                     sampleProducts[acc[k]].partNumber = sampleProducts[product].partNumber
       IN uniqueProducts(Tail(found),
            IF sampleProducts[product].partNumber # << >> /\ ~seen
              THEN Append(acc, product) ELSE acc)

\* what extractProducts reads off one observation: obs.result.products,
\* obs.result.product or obs.result.recommendedParts
observationProducts(obs) ==
  IF ~obs.success THEN << >>
  ELSE IF "products" \in DOMAIN obs.result THEN obs.result.products
  ELSE IF "product" \in DOMAIN obs.result THEN << obs.result.product >>
  ELSE IF "recommendedParts" \in DOMAIN obs.result THEN obs.result.recommendedParts
  ELSE << >>

RECURSIVE collectProducts(_)
collectProducts(observations) ==
  IF observations = << >> THEN << >>
  ELSE observationProducts(Head(observations)) \o collectProducts(Tail(observations))

extractProducts(observations) == uniqueProducts(collectProducts(observations), << >>)

\* The products field of the value processQuery returns after this tool call.
\* executeAction wraps the ToolResult as {success: true, result: ToolResult}.
\* rule agent: shouldFinalize stores the observation and generateFinalResponse
\* extracts from the stored ones (generateSearchResponse throws on a failed
\* ProductSearch result and the catch returns no products field); llm agent:
\* the call of the missing shouldFinalize throws, the catch returns none.
returnedProducts(v, toolName, executed) ==
  LET obs == [success |-> TRUE, result |-> executed] IN
  IF v = "llm" THEN [returned |-> TRUE, defined |-> FALSE, list |-> << >>]
  ELSE IF toolName = "ProductSearch" /\ ~executed.success
    THEN [returned |-> TRUE, defined |-> FALSE, list |-> << >>]
  ELSE [returned |-> TRUE, defined |-> TRUE, list |-> extractProducts(<< obs >>)]

\* the turn ends: processQuery returns
ReturnProducts ==
  /\ toolResult # NoToolResult
  /\ products = NoProducts
  /\ products' = returnedProducts(variant, parameters.tool, toolResult)
  /\ UNCHANGED << parameters, toolResult, engineCalls >>

ToolIdle ==
  /\ parameters = NoParameters
  /\ toolResult = NoToolResult
  /\ engineCalls = 0
  /\ products = NoProducts

\* ------------------------------------------------------------ clock
MaxTime == 7
Tick ==
  /\ now < MaxTime
  /\ now' = now + 1

\* ------------------------------------------------------------ LLM gateway state
\* DeepSeekService (first class of types/index.ts). Times are in minutes.
healthCheckInterval == 5
NoGatewayCall == [op |-> "none", attempted |-> FALSE, at |-> 0]
NoFailures == [count |-> 0, at |-> 0]

\* shouldUseApi: its value and the lastHealthCheck it leaves
shouldUseApi(hasClient, available, last, t) ==
  IF ~hasClient THEN [use |-> FALSE, lastHealthCheck |-> last]
  ELSE [use |-> available,
        lastHealthCheck |-> IF t - last > healthCheckInterval THEN t ELSE last]

\* what callDeepSeekApi can come to: text, null (no content) or an exception
ApiOutcomes == {"text", "null", "error"}

\* generateResponse: the API is tried when shouldUseApi says so; an exception
\* clears isApiAvailable; without a text the fallback answers
GenerateResponse ==
  \E outcome \in ApiOutcomes :
    LET u == shouldUseApi(client, isApiAvailable, lastHealthCheck, now) IN
    /\ lastHealthCheck' = u.lastHealthCheck
    /\ isApiAvailable' = IF u.use /\ outcome = "error" THEN FALSE ELSE isApiAvailable
    /\ lastCall' = [op |-> "generateResponse", attempted |-> u.use, at |-> now]
    /\ failures' = IF u.use /\ outcome = "error"
                     THEN [count |-> IF failures.count < 2 THEN failures.count + 1 ELSE 2,
                           at |-> now]
                     ELSE failures
    /\ UNCHANGED client

\* testConnection: sets isApiAvailable from the outcome of a test call
TestConnection ==
  /\ client
  /\ \E outcome \in ApiOutcomes :
       /\ isApiAvailable' = (outcome # "error")
       /\ lastCall' = [op |-> "testConnection", attempted |-> TRUE, at |-> now]
       /\ failures' = IF outcome = "error"
                        THEN [count |-> IF failures.count < 2 THEN failures.count + 1 ELSE 2,
                              at |-> now]
                        ELSE failures
  /\ UNCHANGED << client, lastHealthCheck >>

\* initialize: with an API key the client is built and the API marked available
GatewayInit ==
  /\ client \in BOOLEAN
  /\ isApiAvailable = client
  /\ lastHealthCheck = 0
  /\ lastCall = NoGatewayCall
  /\ failures = NoFailures

\* ------------------------------------------------------------ rate limiting
\* serverConfig.rateLimitMaxRequests / rateLimitWindowMs (here in minutes)
rateLimitMaxRequests == 2
rateLimitWindowMs == 2
NumClients == 2
\* requests of one client that are followed within a window after its limit is reached
MaxRejected == 2
Clients == 1..NumClients
NoEntry == [count |-> 0, resetTime |-> -1]
NoWindow == [start |-> -1, passed |-> 0]

\* a limiter that starts a fresh count whenever the limit is exceeded
rateLimitForgetful(clientData, t) ==
  LET fresh == IF clientData = NoEntry \/ t > clientData.resetTime \/
                  clientData.count >= rateLimitMaxRequests
                 THEN [count |-> 0, resetTime |-> t + rateLimitWindowMs]
                 ELSE clientData
      counted == [fresh EXCEPT !.count = @ + 1]
  IN [entry |-> counted,
      status |-> IF counted.count > rateLimitMaxRequests THEN "429" ELSE "next"]

\* rateLimit: the entry it stores for the client and how the request is answered
rateLimit(clientData, t) ==
  LET fresh == IF clientData = NoEntry \/ t > clientData.resetTime
                 THEN [count |-> 0, resetTime |-> t + rateLimitWindowMs]
                 ELSE clientData
      counted == [fresh EXCEPT !.count = @ + 1]
  IN [entry |-> counted,
      status |-> IF counted.count > rateLimitMaxRequests THEN "429" ELSE "next"]

\* a request of client c reaches the middleware
RateLimit(c) ==
  LET r == rateLimit(rateLimitStore[c], now)
      w == IF window[c] = NoWindow \/ now > window[c].start + rateLimitWindowMs
             THEN [start |-> now, passed |-> 0] ELSE window[c]
  IN /\ \/ rateLimitStore[c].count < rateLimitMaxRequests + MaxRejected
        \/ now > rateLimitStore[c].resetTime
     /\ rateLimitStore' = [rateLimitStore EXCEPT ![c] = r.entry]
     /\ status' = [status EXCEPT ![c] = r.status]
     /\ window' = [window EXCEPT ![c] =
                     [w EXCEPT !.passed = IF r.status = "next" THEN @ + 1 ELSE @]]

\* cleanupRateLimit: the entries whose window has expired are deleted
cleanupRateLimit(store, t) ==
  [c \in Clients |-> IF store[c] # NoEntry /\ t > store[c].resetTime THEN NoEntry ELSE store[c]]
CleanupRateLimit ==
  /\ rateLimitStore' = cleanupRateLimit(rateLimitStore, now)
  /\ UNCHANGED << window, status >>

RateInit ==
  /\ rateLimitStore = [c \in Clients |-> NoEntry]
  /\ window = [c \in Clients |-> NoWindow]
  /\ status = [c \in Clients |-> "none"]

\* ------------------------------------------------------------ specifications
Init ==
  /\ AgentInit
  /\ service \in {"v1", "v2"}
  /\ call = NoCall
  /\ ret = NoRet
  /\ ToolIdle
  /\ GatewayInit /\ client = TRUE
  /\ RateInit
  /\ now = 0

AgentNext == \E s \in Sessions : ProcessQueryNext(s) \/ ProcessNext(s) \/ Respond(s)

Next == AgentNext /\ UNCHANGED << searchVars, toolVars, gatewayVars, rateVars, now >>

Spec == Init /\ [][Next]_vars

\* The turns under the scheduling of the runtime: a task that is ready is run,
\* and a request to the gateway is answered or fails.
Turn(s) ==
  (ProcessQueryNext(s) \/ ProcessNext(s) \/ Respond(s))
    /\ UNCHANGED << searchVars, toolVars, gatewayVars, rateVars, now >>
FairSpec == Spec /\ \A s \in Sessions : WF_vars(Turn(s))

\* The matching engine on its own: one call with arguments from bounded sets.
SearchInit ==
  /\ AgentInit
  /\ variant = "rule"
  /\ service \in {"v1", "v2"}
  /\ call \in { [op |-> "search", params |-> q] : q \in ProductSearchParams }
         \cup { [op |-> "compat", partNumber |-> pn, modelNumber |-> mn] :
                  pn \in StringsUpTo(MaxPartLen), mn \in StringsUpTo(MaxModelLen) }
  /\ ret = NoRet
  /\ ToolIdle
  /\ GatewayInit /\ client = TRUE
  /\ RateInit
  /\ now = 0

SearchNext ==
  (SearchProducts \/ CheckCompatibility)
    /\ UNCHANGED << agentVars, toolVars, gatewayVars, rateVars, now >>

SearchSpec == SearchInit /\ [][SearchNext]_vars

\* One tool call of a turn, with parameters from bounded sets, and the products
\* the turn then returns.
ToolInit ==
  /\ AgentInit
  /\ variant \in {"rule", "llm"}
  /\ service \in {"v1", "v2"}
  /\ call = NoCall
  /\ ret = NoRet
  /\ parameters \in ToolParameters
  /\ toolResult = NoToolResult
  /\ engineCalls = 0
  /\ products = NoProducts
  /\ GatewayInit /\ client = TRUE
  /\ RateInit
  /\ now = 0

ToolNext ==
  (ProductSearchExecute \/ CompatibilityExecute \/ InstallationExecute \/ ReturnProducts)
    /\ UNCHANGED << agentVars, searchVars, gatewayVars, rateVars, now >>

ToolSpec == ToolInit /\ [][ToolNext]_vars

\* The gateway over time.
GatewayStart ==
  /\ AgentInit
  /\ variant = "llm"
  /\ service = "v1"
  /\ call = NoCall
  /\ ret = NoRet
  /\ ToolIdle
  /\ GatewayInit
  /\ RateInit
  /\ now = 0

GatewayNext ==
  \/ Tick /\ UNCHANGED << agentVars, searchVars, toolVars, gatewayVars, rateVars >>
  \/ GenerateResponse /\ UNCHANGED << agentVars, searchVars, toolVars, rateVars, now >>
  \/ TestConnection /\ UNCHANGED << agentVars, searchVars, toolVars, rateVars, now >>

GatewaySpec == GatewayStart /\ [][GatewayNext]_vars

\* The rate limiter over time.
RateStart ==
  /\ AgentInit
  /\ variant = "rule"
  /\ service = "v1"
  /\ call = NoCall
  /\ ret = NoRet
  /\ ToolIdle
  /\ GatewayInit /\ client = TRUE
  /\ RateInit
  /\ now = 0

RateNext ==
  \/ Tick /\ UNCHANGED << agentVars, searchVars, toolVars, gatewayVars, rateVars >>
  \/ (\E c \in Clients : RateLimit(c))
       /\ UNCHANGED << agentVars, searchVars, toolVars, gatewayVars, now >>
  \/ CleanupRateLimit /\ UNCHANGED << agentVars, searchVars, toolVars, gatewayVars, now >>

RateSpec == RateStart /\ [][RateNext]_vars

\* ------------------------------------------------------------ claims
Finished(s) == pc[s] = "done"
ProcessQueryAgent == variant \in {"rule", "llm"}
HasType(log, t) == \E i \in 1..Len(log) : log[i].type = t

\* C1: at the start of every turn (right after the reset statements of
\* processQuery), whatever the earlier turns did, the reasoning log is empty, the
\* has-already-acted flag is false and no tool result of an earlier turn is kept.
C1_TurnStateReset ==
  \A s \in Sessions :
    pc[s] = "started" => reasoning = << >> /\ ~hasExecutedAction /\ actionResults = << >>

\* a turn of the rule agent starts after a turn whose tool ran and failed
C1_Witness ==
  \E s \in Sessions : pc[s] = "started" /\ variant = "rule" /\ prev = "formatIssue"

C3_AlwaysReturns ==
  \A s \in Sessions :
    Finished(s) =>
      /\ result[s].kind = "returned"
      /\ result[s].response # "none"
      /\ result[s].reasoning \in Seq([step : Nat, type : {"thought", "action", "observation"},
                                      tool : ToolNames \cup {UnknownTool, "-"}])

\* a call has ended after the synthesis request failed
C3_Witness ==
  \E s \in Sessions : Finished(s) /\ llm[s].final = "failed" /\ err[s] # "none"

\* C4: turns of different sessions do not affect each other: the reasoning log a
\* turn returns is exactly what that turn itself logged.
C4_SessionsIsolated ==
  \A s \in Sessions : Finished(s) => result[s].reasoning = own[s]

\* C5: a failed tool-selection call is not handled like the gateway's answer "no
\* tool needed": the turn does not go on to finalization with no action.
C5_FailureIsNotNoTool ==
  \A s \in Sessions :
    llm[s].tool = "failed" => ~(pc[s] = "final" /\ action[s] = NoAction)

\* C6: when every gateway call of a turn fails (times out), the turn returns a
\* response of the deterministic fallback path, not an error.
C6_FallbackOnTimeout ==
  \A s \in Sessions :
    (Finished(s) /\ llm[s].tool = "failed" /\ llm[s].final = "failed") =>
      /\ result[s].kind = "returned"
      /\ result[s].error = "undefined"
      /\ result[s].response # "apology"

\* C7: the reasoning log a turn returns holds at least one thought.
C7_EndsWithThought ==
  \A s \in Sessions : Finished(s) => HasType(result[s].reasoning, "thought")

\* C8: in the processQuery log every action entry comes after a thought, every
\* observation entry after an action entry of the same tool, and a turn that
\* invoked a tool returns a log with a thought, an action and an observation.
C8_ThoughtActionObservation ==
  ProcessQueryAgent =>
    /\ \A i \in 1..Len(reasoning) :
         /\ reasoning[i].type = "action" =>
              \E j \in 1..(i - 1) : reasoning[j].type = "thought"
         /\ reasoning[i].type = "observation" =>
              \E j \in 1..(i - 1) :
                reasoning[j].type = "action" /\ reasoning[j].tool = reasoning[i].tool
    /\ \A s \in Sessions :
         (Finished(s) /\ toolCalls[s] > 0) =>
           \E i, j, k \in 1..Len(result[s].reasoning) :
             /\ i < j /\ j < k
             /\ result[s].reasoning[i].type = "thought"
             /\ result[s].reasoning[j].type = "action"
             /\ result[s].reasoning[k].type = "observation"
             /\ result[s].reasoning[k].tool = result[s].reasoning[j].tool

\* a turn has returned after invoking a tool
C8_Witness ==
  \E s \in Sessions : Finished(s) /\ ProcessQueryAgent /\ toolCalls[s] = 1

\* C9: while a turn runs, every entry it has logged stays in the log at its
\* position, with step indices strictly increasing.
C9_AppendOnly ==
  ProcessQueryAgent =>
    \A s \in Sessions :
      pc[s] # "idle" =>
        \A i \in 1..Len(own[s]) :
          /\ own[s][i].step <= Len(reasoning)
          /\ reasoning[own[s][i].step] = own[s][i]
          /\ \A j \in 1..(i - 1) : own[s][j].step < own[s][i].step

\* C10: a turn that ended in the top-level catch returns a log in which the
\* exception is recorded as an observation entry.
C10_ExceptionObserved ==
  ProcessQueryAgent =>
    \A s \in Sessions :
      (Finished(s) /\ err[s] # "none") =>
        \E i \in 1..Len(result[s].reasoning) :
          /\ result[s].reasoning[i].type = "observation"
          /\ result[s].reasoning[i].tool = "-"

\* C11: whenever the invoked tool reported a failure, the observation of
\* executeAction that the turn records and finalizes on has success = false and
\* carries the failure's error message.
C11_FailureObserved ==
  \A s \in Sessions :
    observation[s].result = "fail" =>
      ~observation[s].success /\ observation[s].error # "none"

\* C12: whenever the tool invoked in a turn of the rule agent failed, the turn's
\* final response is the templated apology (which names the failure reason).
C12_FailureApology ==
  \A s \in Sessions :
    (Finished(s) /\ variant = "rule" /\ observation[s].result = "fail") =>
      result[s].response = "apology"

\* C13: whenever a turn of the rule agent needs no tool (greeting, general
\* help), its final response is the static capability overview.
C13_NoToolOverview ==
  \A s \in Sessions :
    (Finished(s) /\ variant = "rule" /\ ruleTool(analyzeUserIntent(msg[s])) = "null") =>
      result[s].response = "overview"

\* C14: an action naming a tool that is not registered is treated as no action:
\* the turn logs no action and no observation for it and goes on to finalization
\* as a turn without action does.
C14_UnknownToolIsNoAction ==
  \A s \in Sessions :
    (action[s] # NoAction /\ toolsGet(action[s].tool) = "undefined") =>
      /\ ~HasType(own[s], "action")
      /\ ~HasType(own[s], "observation")
      /\ err[s] = "none"

\* the precedence the rules are to be applied in, and the intent each rule gives
Precedence == << "install", "compat", "trouble", "search", "greet" >>
IntentOfRule ==
  [r \in Rules |-> CASE r = "install" -> "installation"
                     [] r = "compat" -> "compatibility"
                     [] r = "trouble" -> "troubleshooting"
                     [] r = "search" -> "product_search"
                     [] r = "greet" -> "general_help"]
\* the search rule also matches on a part number alone
Matches(m, r) == IF r = "search" THEN "search" \in m.kw \/ m.part ELSE r \in m.kw
FirstMatch(m) ==
  IF \A k \in 1..Len(Precedence) : ~Matches(m, Precedence[k]) THEN "general"
  ELSE IntentOfRule[Precedence[CHOOSE k \in 1..Len(Precedence) :
                      /\ Matches(m, Precedence[k])
                      /\ \A j \in 1..(k - 1) : ~Matches(m, Precedence[j])]]

\* C15: the intent the rule agent computes for a message is that of the first
\* rule, in the order installation, compatibility, troubleshooting, search,
\* greeting, that the message matches.
C15_RulePrecedence ==
  \A s \in Sessions : intent[s] # NoIntent => intent[s].type = FirstMatch(msg[s])

\* a message matching the compatibility rule and every lower rule was classified
C15_Witness ==
  \E s \in Sessions :
    /\ intent[s].type = "compatibility"
    /\ {"compat", "trouble", "search", "greet"} \subseteq msg[s].kw

\* C16: for a compatibility message with a model number and no part number the
\* rule agent runs no tool and its response asks for the part number.
C16_AsksForPartNumber ==
  \A s \in Sessions :
    (/\ Finished(s)
     /\ variant = "rule"
     /\ intent[s].type = "compatibility"
     /\ ~intent[s].part
     /\ intent[s].model) =>
      toolCalls[s] = 0 /\ result[s].response = "askPartNumber"

\* the catalog product whose part number is pn, verbatim (0 when there is none)
InCatalog(pn) == { i \in Products : sampleProducts[i].partNumber = pn }
\* no record of the catalog has this part number in canonical form
NoRecord(pn) ==
  \A i \in Products : normalizeString(sampleProducts[i].partNumber) # normalizeString(pn)

\* C17: a search whose parameters carry the part number of a catalog product,
\* whatever the other fields, returns that product and nothing else.
C17_ExactMatchAlone ==
  (ret.kind = "search" /\ call.params.partNumber.has) =>
    \A i \in InCatalog(call.params.partNumber.v) : ret.products = << i >>

\* C18: for a part number that matches no catalog record, checkCompatibility
\* returns (it does not throw) isCompatible = false with confidence 0.
C18_UnknownPart ==
  (call.op = "compat" /\ ret # NoRet /\ NoRecord(call.partNumber)) =>
    /\ ret.kind = "compat"
    /\ ~ret.isCompatible
    /\ ret.confidence = 0

\* the call for an unknown part with a model some product lists has returned
C18_Witness ==
  /\ call.op = "compat"
  /\ ret # NoRet
  /\ NoRecord(call.partNumber)
  /\ call.modelNumber = sampleProducts[1].compatibleModels[1]

\* C19: for a catalog part and a model number that is verbatim in its
\* compatibleModels, checkCompatibility returns isCompatible = true with
\* confidence 1.0.
C19_VerbatimModel ==
  (call.op = "compat" /\ ret # NoRet) =>
    \A i \in InCatalog(call.partNumber) :
      some(sampleProducts[i].compatibleModels, LAMBDA m : m = call.modelNumber) =>
        ret.isCompatible /\ ret.confidence = 10 /\ ret.part = i

\* the call for the third product and its second listed model has returned
C19_Witness ==
  /\ call.op = "compat"
  /\ ret # NoRet
  /\ call.partNumber = sampleProducts[3].partNumber
  /\ call.modelNumber = sampleProducts[3].compatibleModels[2]

\* C20: when the part exists, no listed model equals the queried model (case
\* aside) and one differs from it only by a trailing digit, checkCompatibility
\* returns isCompatible = true with confidence 0.8.
C20_PartialMatch ==
  (call.op = "compat" /\ ret # NoRet) =>
    \A i \in InCatalog(call.partNumber) :
      (/\ ~some(sampleProducts[i].compatibleModels,
                LAMBDA m : normalizeString(m) = normalizeString(call.modelNumber))
       /\ some(sampleProducts[i].compatibleModels,
               LAMBDA m : toLowerCase(stripTrailingDigit(m))
                            = toLowerCase(stripTrailingDigit(call.modelNumber)))) =>
        ret.isCompatible /\ ret.confidence = 8

\* the queried model and a listed model are the same model: equal in canonical
\* form, with or without the tolerance for a trailing digit or "-digits" suffix
SameModel(m, mn) ==
  \/ normalizeString(m) = normalizeString(mn)
  \/ normalizeModel(m) = normalizeModel(mn)
  \/ toLowerCase(stripTrailingDigit(m)) = toLowerCase(stripTrailingDigit(mn))
\* neither the exact nor the partial match of either implementation succeeds
NoModelMatch(i, mn) ==
  ~some(sampleProducts[i].compatibleModels, LAMBDA m :
     \/ SameModel(m, mn)
     \/ includes(toLowerCase(stripTrailingDigit(m)), toLowerCase(stripTrailingDigit(mn)))
     \/ includes(toLowerCase(stripTrailingDigit(mn)), toLowerCase(stripTrailingDigit(m))))

\* C21: when the part exists and no listed model matches the queried one,
\* exactly or partially, checkCompatibility returns isCompatible = false,
\* confidence 0 and at most 3 alternatives, each of the part's category and each
\* listing the queried model in its compatibleModels.
C21_Alternatives ==
  (call.op = "compat" /\ ret # NoRet) =>
    \A i \in InCatalog(call.partNumber) :
      NoModelMatch(i, call.modelNumber) =>
        /\ ~ret.isCompatible
        /\ ret.confidence = 0
        /\ Len(ret.alternativeParts) <= 3
        /\ \A k \in 1..Len(ret.alternativeParts) :
             /\ sampleProducts[ret.alternativeParts[k]].category = sampleProducts[i].category
             /\ some(sampleProducts[ret.alternativeParts[k]].compatibleModels,
                     LAMBDA m : SameModel(m, call.modelNumber))

\* the entries of ranked at positions offset + 1 .. offset + limit
Window(ranked, offset, limit) ==
  [k \in 1..(IF Len(ranked) - offset < limit
               THEN (IF Len(ranked) - offset < 0 THEN 0 ELSE Len(ranked) - offset)
               ELSE (IF limit < 0 THEN 0 ELSE limit)) |-> ranked[offset + k]]
\* the limit and offset a search asked for (the defaults when it names none)
AskedLimit == IF call.params.limit.has THEN call.params.limit.v ELSE defaultLimit
AskedOffset == IF call.params.offset.has THEN call.params.offset.v ELSE 0

\* C22: a search that is not answered by the exact part-number match returns
\* totalCount = the size of the whole ranked set and as products exactly the
\* entries offset + 1 .. offset + limit of that set, so at most limit of them.
C22_Pagination ==
  (ret.kind = "search" /\ ~ret.exact) =>
    /\ ret.totalCount = Len(ret.ranked)
    /\ ret.products = Window(ret.ranked, AskedOffset, AskedLimit)
    /\ Len(ret.products) <= AskedLimit

\* C23: a search whose final result set is empty produces at most 3
\* suggestion strings, whatever the query fields.
C23_AtMostThreeSuggestions ==
  (ret.kind = "search" /\ Len(ret.ranked) = 0) => ret.suggestions <= 3

\* the parameters fail the validation of the tool they are handed to
InvalidParameters(p) ==
  CASE p.tool = "ProductSearch" -> ~ProductSearchToolSchema(p)
    [] p.tool = "CompatibilityCheck" -> ~CompatibilityToolSchema(p)
    [] p.tool = "InstallationGuide" -> ~InstallationToolSchema(p)
    [] OTHER -> FALSE

\* C24: a tool handed parameters that fail its validation (CompatibilityCheck
\* with partNumber or modelNumber missing or empty, ProductSearch with a category
\* or limit outside its schema, ...) returns a failure and has not called the
\* Matching Engine, with or without a default in place of the bad value.
C24_ValidatesBeforeEngine ==
  (toolResult # NoToolResult /\ InvalidParameters(parameters)) =>
    ~toolResult.success /\ engineCalls = 0

\* the catalog products a part number names, in canonical form
Named(pn) == { i \in Products : normalizeString(sampleProducts[i].partNumber) = normalizeString(pn) }

\* C25: InstallationGuide, asked for a part that has no installation data (a part
\* that is not in the catalog, or one that is but has no installationSteps),
\* returns the 'not found' failure.
C25_NoInstallationData ==
  ( /\ parameters.tool = "InstallationGuide"
    /\ toolResult # NoToolResult
    /\ Truthy(parameters.partNumber)
    /\ \A i \in Named(parameters.partNumber.v) : ~hasInstallationSteps(i) ) =>
    ~toolResult.success /\ toolResult.error = "not found"

\* the products the tool result of the turn contains
ToolProducts ==
  IF toolResult.success /\ "products" \in DOMAIN toolResult.data
    THEN toolResult.data.products ELSE << >>
\* seq without the entries whose part number an earlier entry has
FirstSeen(seq) ==
  LET idx == { k \in 1..Len(seq) :
                 \A j \in 1..(k - 1) :
                   sampleProducts[seq[j]].partNumber # sampleProducts[seq[k]].partNumber }
      nth(r) == CHOOSE k \in idx : Cardinality({ j \in idx : j < k }) = r - 1
  IN [r \in 1..Cardinality(idx) |-> seq[nth(r)]]

\* C26: the products a turn returns are the products of that turn's tool result,
\* one per part number, the first-seen one (an absent field counts as empty).
C26_ReturnedProducts ==
  products.returned => products.list = FirstSeen(ToolProducts)

\* the iteration limit of the deployed design
IterationLimit == IF variant = "react" THEN reactMaxIterations ELSE maxIterations
ActionEntries(log) == Len(SelectSeq(log, LAMBDA e : e.type = "action"))
LoopBounded ==
  /\ currentIteration <= maxIterations
  /\ \A s \in Sessions :
       /\ iteration[s] <= reactMaxIterations
       /\ toolCalls[s] <= IterationLimit
       /\ ActionEntries(own[s]) <= IterationLimit

\* C27: a turn never runs more iterations (action generations, tool executions)
\* than the iteration limit, whatever the generator, the tools and the gateway
\* return, and every turn that has started comes to its end and returns: in the
\* end no turn is under way any more.
C27_LoopTerminates ==
  /\ []LoopBounded
  /\ <>[](\A s \in Sessions : pc[s] = "idle")

\* a react turn has ended after using up all its iterations
C27_Witness ==
  \E s \in Sessions :
    Finished(s) /\ variant = "react" /\ iteration[s] = reactMaxIterations
                /\ toolCalls[s] = reactMaxIterations

\* C28: a turn in which a tool ran successfully ends with a response composed
\* from that tool's result: the template of the tool, or the gateway's synthesis.
C28_ResultReachesSynthesis ==
  \A s \in Sessions :
    ( /\ Finished(s) /\ ProcessQueryAgent
      /\ toolCalls[s] > 0
      /\ observation[s].success /\ observation[s].result = "ok" ) =>
      /\ result[s].error = "undefined"
      /\ result[s].response \in {action[s].tool, "llmText"}

\* C29: after a single failed API call, a generateResponse call made once the
\* health-check interval has elapsed since the failure attempts the API again.
C29_GatewayRecovers ==
  ( /\ lastCall.op = "generateResponse"
    /\ client
    /\ failures.count = 1
    /\ lastCall.at - failures.at > healthCheckInterval ) =>
    lastCall.attempted

\* client c has made a request in this step
Requested(c) == rateLimitStore'[c] # rateLimitStore[c] /\ rateLimitStore'[c] # NoEntry
InWindow(c) == window[c] # NoWindow /\ now <= window[c].start + rateLimitWindowMs
RateLimited ==
  \A c \in Clients :
    /\ window[c].passed <= rateLimitMaxRequests
    /\ status[c] = "429" => window[c].passed = rateLimitMaxRequests
RateStep ==
  \A c \in Clients :
    /\ (Requested(c) /\ InWindow(c) /\ window[c].passed = rateLimitMaxRequests)
         => status'[c] = "429"
    /\ (rateLimitStore[c] # NoEntry /\ rateLimitStore'[c] # rateLimitStore[c]
          /\ rateLimitStore'[c].count <= rateLimitStore[c].count)
         => now > rateLimitStore[c].resetTime

\* C30: per client at most rateLimitMaxRequests requests of one window are
\* passed on, every further request of the window is answered 429, and the
\* count of a client starts again only when its window has expired.
C30_RateLimit == []RateLimited /\ [][RateStep]_vars

\* a client has used up a second window after its first one expired
C30_Witness ==
  \E c \in Clients :
    /\ status[c] = "429"
    /\ window[c].passed = rateLimitMaxRequests
    /\ window[c].start > rateLimitWindowMs

====
